---- MODULE Spec2Model ----
(***************************************************************************)
(* Model of the finbert SageMaker scripts.                                 *)
(*   finbert.py        : main() = create_sagemaker_execution_role() ->     *)
(*                       deploy_huggingface_model() -> test_endpoint()     *)
(*   finbert-invoke.py : module-level prediction loop against a recorded   *)
(*                       endpoint name.                                    *)
(* The cloud provider (IAM role store, endpoint lifecycle, responses and   *)
(* errors of every call) is the environment: its outcomes are chosen       *)
(* nondeterministically.  Both scripts are sequential; pc is the position  *)
(* of the running script.                                                  *)
(***************************************************************************)
EXTENDS Integers, Sequences, FiniteSets

\* ------------------------------------------------------------------ bounds
\* Largest number of label/score entries in one provider response.
MaxEntries == 2
\* Number of times the role ensure-step is called in sequence (SpecEnsure).
MaxCalls == 2

\* --------------------------------------------------------- program constants
None == "None"
NoRole == "NoRole"

role_name == "SageMakerExecutionRole"

required_policies ==
    << "AmazonSageMakerFullAccess", "AmazonS3FullAccess",
       "AmazonEC2ContainerRegistryReadOnly" >>

\* test_texts of test_endpoint: a text is its position and its length.
test_texts ==
    << [id |-> 1, len |-> 69], [id |-> 2, len |-> 56], [id |-> 3, len |-> 60],
       [id |-> 4, len |-> 51], [id |-> 5, len |-> 50] >>

\* inputs of finbert-invoke.py.
inputs ==
    << [id |-> 1, len |-> 66], [id |-> 2, len |-> 75], [id |-> 3, len |-> 29] >>

\* text[:60] in the report lines of test_endpoint.
ShownChars == 60

\* {score:.3f} in the report lines of test_endpoint.
ScorePlaces == 3

\* The endpoint name written into finbert-invoke.py, and the name the
\* provider generates for the endpoint of a deployment (endpoint_name=None).
RecordedEndpoint == "huggingface-pytorch-inference-neuronx-m-2025-07-03"
GeneratedEndpoint == "generated-endpoint-name"

EndpointNames == {RecordedEndpoint, GeneratedEndpoint}

\* ------------------------------------------------------------ the provider
\* Role identifier the IAM service gives a role of this name (Path '/').
Arn(name) ==
    IF name = role_name THEN "arn:aws:iam::role/SageMakerExecutionRole"
    ELSE "arn:aws:iam::role/other"

PolicySet == {required_policies[n] : n \in 1..Len(required_policies)}

\* Errors of the IAM calls other than the ones the code names.
OtherIamErrors == {"AccessDenied"}

\* Outcomes of iam.attach_role_policy.
AttachOutcomes == {"ok", "LimitExceeded"} \cup OtherIamErrors

\* Scores are in units of 1/10000.  The values avoid the ties of the
\* three-place rounding.
ResponseEntries ==
    { [label |-> "positive", score |-> 8700],
      [label |-> "negative", score |-> 8764] }

RECURSIVE SeqsUpTo(_, _)
SeqsUpTo(S, n) ==
    IF n = 0 THEN {<< >>}
    ELSE LET shorter == SeqsUpTo(S, n - 1)
         IN  shorter \cup {Append(s, e) : s \in {x \in shorter : Len(x) = n - 1}, e \in S}

\* What predictor.predict returns when it does not raise: an ordered
\* sequence of label/score entries, possibly empty.
Responses == SeqsUpTo(ResponseEntries, MaxEntries)

\* Number of decimal places of a score as the provider sends it.
ScoreUnits == 4

RECURSIVE Pow10(_)
Pow10(n) == IF n = 0 THEN 1 ELSE 10 * Pow10(n - 1)

\* A printed number: its digits and the number of decimal places shown.
\* f"{score:.3f}" rounds to the given places (no ties among the scores).
FormatFixed(score, places) ==
    LET scale == Pow10(ScoreUnits - places)
    IN  [digits |-> (score + scale \div 2) \div scale, places |-> places]

\* f"{score}" prints the shortest text that reads back as the same float.
FormatRepr(score) == [digits |-> score, places |-> ScoreUnits]

\* The number a printed score denotes, in units of 1/10000.
PrintedValue(r) == r.digits * Pow10(ScoreUnits - r.places)

\* f"{text[:60]}{'...' if len(text) > 60 else ''}"
Display(text) ==
    [id |-> text.id,
     shown |-> IF text.len < ShownChars THEN text.len ELSE ShownChars,
     ellipsis |-> text.len > ShownChars]

NoPredict == [endpoint |-> None, state |-> "none", text |-> 0,
              raised |-> FALSE, result |-> << >>]
NoReport == [text |-> [id |-> 0, shown |-> 0, ellipsis |-> FALSE],
             label |-> None, score |-> [digits |-> 0, places |-> 0]]

\* ------------------------------------------------------------------ state
VARIABLES
    flow,           \* which script runs: "deploy", "standalone", "ensure"
    pc,             \* position of the running script
    iamRole,        \* provider: identifier of the role role_name, or NoRole
    attached,       \* provider: policies attached to the role
    endpointState,  \* provider: lifecycle state of each endpoint
    fn_role_arn,    \* role_arn inside create_sagemaker_execution_role
    created,        \* this call of the ensure-step created the role
    slept,          \* time.sleep(10) has completed in this call
    p,              \* index of the next policy of the attachment loop
    attachLog,      \* attachments attempted by this call, with outcomes
    iamFaults,      \* IAM calls the provider answered with an error the code does not name
    callNo,         \* number of calls of the ensure-step so far
    returned,       \* role identifiers returned by the ensure-step, in order
    createCount,    \* number of roles created by iam.create_role
    role_arn,       \* role_arn of main
    hfRole,         \* role given to HuggingFaceModel
    predictor,      \* endpoint name held by the predictor object, or None
    starts,         \* how often main started each of its steps
    t,              \* index of the next text of a prediction loop
    reports,        \* test_endpoint: kind of report printed for each text
    lastPredict,    \* the latest predict call: endpoint, its state, text, result
    lastReport,     \* test_endpoint: the latest sentiment report line
    completed,      \* main printed DEPLOYMENT COMPLETE
    result,         \* value returned by main
    raised,         \* exception that left the script, or None
    outputs,        \* finbert-invoke.py: outputs list
    printed         \* finbert-invoke.py: lines of the final print loop

roleVars == << iamRole, attached, fn_role_arn, created, slept, p, attachLog,
               iamFaults, callNo, returned, createCount >>
mainVars == << role_arn, hfRole, predictor, starts, reports, lastReport,
               completed, result >>
invokeVars == << outputs, printed >>
vars == << flow, pc, endpointState, t, lastPredict, raised,
           roleVars, mainVars, invokeVars >>

\* State before a script starts.  The role may or may not exist already,
\* with any of the policies attached; the recorded endpoint was in service
\* when its name was recorded and may have been deleted since.
InitCommon ==
    /\ pc = "start"
    /\ \/ iamRole = NoRole /\ attached = {}
       \/ iamRole = Arn(role_name) /\ attached \in SUBSET PolicySet
    /\ endpointState \in
         { [e \in EndpointNames |-> IF e = RecordedEndpoint THEN s ELSE "none"]
             : s \in {"inservice", "deleted"} }
    /\ fn_role_arn = None /\ created = FALSE /\ slept = FALSE
    /\ p = 1 /\ attachLog = << >> /\ iamFaults = {}
    /\ callNo = 0 /\ returned = << >> /\ createCount = 0
    /\ role_arn = None /\ hfRole = None /\ predictor = None
    /\ starts = [provisioner |-> 0, deployer |-> 0, invoker |-> 0]
    /\ t = 1 /\ reports = << >> /\ lastPredict = NoPredict /\ lastReport = NoReport
    /\ completed = FALSE /\ result = None /\ raised = None
    /\ outputs = << >> /\ printed = << >>

Init == flow \in {"deploy", "standalone"} /\ InitCommon

InitEnsure == flow = "ensure" /\ InitCommon

\* ---------------------------------------- create_sagemaker_execution_role
\* An exception that leaves the running script.  In main it passes through
\* the except clause, which prints and re-raises.
Raise(e) == pc' = "failed" /\ raised' = e

\* CreateRole without the EntityAlreadyExists handler: the error of a second
\* creation leaves the function.
CreateRole_Uncaught ==
    /\ pc = "create_role"
    /\ \/ /\ iamRole = NoRole
          /\ iamRole' = Arn(role_name)
          /\ fn_role_arn' = Arn(role_name)
          /\ created' = TRUE
          /\ createCount' = createCount + 1
          /\ pc' = "sleep"
          /\ UNCHANGED << raised, iamFaults >>
       \/ /\ iamRole # NoRole
          /\ Raise("EntityAlreadyExists")
          /\ UNCHANGED << iamRole, fn_role_arn, created, createCount,
                          iamFaults >>
       \/ /\ \E e \in OtherIamErrors : Raise(e)
          /\ iamFaults' = iamFaults \cup {"create_role"}
          /\ UNCHANGED << iamRole, fn_role_arn, created, createCount >>
    /\ UNCHANGED << flow, endpointState, t, lastPredict, attached, slept, p,
                    attachLog, callNo, returned, mainVars, invokeVars >>

\* iam.create_role inside the try: the role is created, or the provider
\* answers EntityAlreadyExists (caught: continue with get_role), or another
\* error leaves the function.
CreateRole ==
    /\ pc = "create_role"
    /\ \/ /\ iamRole = NoRole
          /\ iamRole' = Arn(role_name)
          /\ fn_role_arn' = Arn(role_name)
          /\ created' = TRUE
          /\ createCount' = createCount + 1
          /\ pc' = "sleep"
          /\ UNCHANGED << raised, iamFaults >>
       \/ /\ iamRole # NoRole
          /\ pc' = "get_role"
          /\ UNCHANGED << iamRole, fn_role_arn, created, createCount, raised,
                          iamFaults >>
       \/ /\ \E e \in OtherIamErrors : Raise(e)
          /\ iamFaults' = iamFaults \cup {"create_role"}
          /\ UNCHANGED << iamRole, fn_role_arn, created, createCount >>
    /\ UNCHANGED << flow, endpointState, t, lastPredict, attached, slept, p,
                    attachLog, callNo, returned, mainVars,
                    invokeVars >>

\* time.sleep(10) after a successful creation.
Sleep ==
    /\ pc = "sleep"
    /\ slept' = TRUE
    /\ pc' = "attach"
    /\ UNCHANGED << flow, endpointState, t, lastPredict, raised, iamRole,
                    attached, fn_role_arn, created, p, attachLog, iamFaults,
                    callNo, returned, createCount, mainVars, invokeVars >>

\* GetRole with the lookup error swallowed: the function goes on without
\* a role identifier.
GetRole_Swallow ==
    /\ pc = "get_role"
    /\ \/ /\ fn_role_arn' = iamRole
          /\ pc' = "attach"
          /\ UNCHANGED << raised, iamFaults >>
       \/ /\ pc' = "attach"
          /\ iamFaults' = iamFaults \cup {"get_role"}
          /\ UNCHANGED << fn_role_arn, raised >>
    /\ UNCHANGED << flow, endpointState, t, lastPredict, iamRole, attached,
                    created, slept, p, attachLog, callNo, returned,
                    createCount, mainVars, invokeVars >>

\* GetRole with the propagation wait placed after the handler, so that it
\* runs on the existing-role path too.
GetRole_ThenSleep ==
    /\ pc = "get_role"
    /\ \/ /\ fn_role_arn' = iamRole
          /\ pc' = "sleep"
          /\ UNCHANGED << raised, iamFaults >>
       \/ /\ \E e \in OtherIamErrors : Raise(e)
          /\ iamFaults' = iamFaults \cup {"get_role"}
          /\ UNCHANGED fn_role_arn
    /\ UNCHANGED << flow, endpointState, t, lastPredict, iamRole, attached,
                    created, slept, p, attachLog, callNo, returned,
                    createCount, mainVars, invokeVars >>

\* iam.get_role in the EntityAlreadyExists handler; an error of this call
\* is not caught.
GetRole ==
    /\ pc = "get_role"
    /\ \/ /\ fn_role_arn' = iamRole
          /\ pc' = "attach"
          /\ UNCHANGED << raised, iamFaults >>
       \/ /\ \E e \in OtherIamErrors : Raise(e)
          /\ iamFaults' = iamFaults \cup {"get_role"}
          /\ UNCHANGED fn_role_arn
    /\ UNCHANGED << flow, endpointState, t, lastPredict, iamRole, attached,
                    created, slept, p, attachLog, callNo,
                    returned, createCount, mainVars, invokeVars >>

\* The line printed for an outcome of iam.attach_role_policy.
AttachLine(o) ==
    IF o = "ok" THEN "Attached policy"
    ELSE IF o = "LimitExceeded" THEN "Policy already attached"
    ELSE "Warning: Could not attach policy"

\* AttachPolicy without the "except Exception" clause: an error other than
\* LimitExceeded leaves the function.
AttachPolicy_Fatal ==
    /\ pc = "attach"
    /\ p <= Len(required_policies)
    /\ \E o \in AttachOutcomes :
          /\ attached' = IF o = "ok" THEN attached \cup {required_policies[p]}
                         ELSE attached
          /\ attachLog' = Append(attachLog,
                                 [policy |-> required_policies[p], outcome |-> o,
                                  line |-> AttachLine(o), slept |-> slept])
          /\ iamFaults' = IF o \in OtherIamErrors
                          THEN iamFaults \cup {"attach_role_policy"}
                          ELSE iamFaults
          /\ IF o \in OtherIamErrors THEN Raise(o) ELSE UNCHANGED << pc, raised >>
    /\ p' = p + 1
    /\ UNCHANGED << flow, endpointState, t, lastPredict, iamRole,
                    fn_role_arn, created, slept, callNo, returned, createCount,
                    mainVars, invokeVars >>

\* One iteration of "for policy_arn in required_policies": the attach call
\* and the print of its outcome.  No outcome leaves the loop.
AttachPolicy ==
    /\ pc = "attach"
    /\ p <= Len(required_policies)
    /\ \E o \in AttachOutcomes :
          /\ attached' = IF o = "ok" THEN attached \cup {required_policies[p]}
                         ELSE attached
          /\ attachLog' = Append(attachLog,
                                 [policy |-> required_policies[p], outcome |-> o,
                                  line |-> AttachLine(o), slept |-> slept])
          /\ iamFaults' = IF o \in OtherIamErrors
                          THEN iamFaults \cup {"attach_role_policy"}
                          ELSE iamFaults
    /\ p' = p + 1
    /\ UNCHANGED << flow, pc, endpointState, t, lastPredict, raised, iamRole,
                    fn_role_arn, created, slept, callNo, returned, createCount,
                    mainVars, invokeVars >>

\* return role_arn
ReturnRole ==
    /\ pc = "attach"
    /\ p > Len(required_policies)
    /\ returned' = Append(returned, fn_role_arn)
    /\ pc' = "role_done"
    /\ UNCHANGED << flow, endpointState, t, lastPredict, raised, iamRole,
                    attached, fn_role_arn, created, slept, p, attachLog,
                    iamFaults, callNo, createCount, mainVars, invokeVars >>

\* A call of the ensure-step: the first one, or the next one after the
\* previous call returned or raised.
EnsureCall ==
    /\ flow = "ensure"
    /\ pc \in {"start", "role_done", "failed"}
    /\ callNo < MaxCalls
    /\ callNo' = callNo + 1
    /\ pc' = "create_role"
    /\ fn_role_arn' = None /\ created' = FALSE /\ slept' = FALSE
    /\ p' = 1 /\ attachLog' = << >> /\ UNCHANGED iamFaults
    /\ UNCHANGED << flow, endpointState, t, lastPredict, raised, iamRole,
                    attached, returned, createCount, mainVars, invokeVars >>

NextEnsure ==
    \/ EnsureCall
    \/ CreateRole
    \/ Sleep
    \/ GetRole
    \/ AttachPolicy
    \/ ReturnRole

SpecEnsure == InitEnsure /\ [][NextEnsure]_vars

\* ------------------------------------------------------------------- main
\* Step 1 of main: call create_sagemaker_execution_role().
MainStart ==
    /\ flow = "deploy"
    /\ pc = "start"
    /\ starts' = [starts EXCEPT !.provisioner = @ + 1]
    /\ callNo' = callNo + 1
    /\ pc' = "create_role"
    /\ UNCHANGED << flow, endpointState, t, lastPredict, raised, iamRole,
                    attached, fn_role_arn, created, slept, p, attachLog,
                    iamFaults, returned, createCount, role_arn, hfRole,
                    predictor, reports, lastReport, completed, result,
                    invokeVars >>

\* DeployCall that removes the role again when the deployment is rejected.
DeployCall_Rollback ==
    /\ flow = "deploy"
    /\ pc = "role_done"
    /\ role_arn' = returned[Len(returned)]
    /\ hfRole' = role_arn'
    /\ starts' = [starts EXCEPT !.deployer = @ + 1]
    /\ fn_role_arn' = None /\ created' = FALSE /\ slept' = FALSE
    /\ p' = 1 /\ attachLog' = << >>
    /\ \/ /\ endpointState' = [endpointState EXCEPT ![GeneratedEndpoint] = "creating"]
          /\ pc' = "deploying"
          /\ UNCHANGED << raised, iamRole, attached >>
       \/ /\ Raise("DeployError")
          /\ iamRole' = NoRole /\ attached' = {}
          /\ UNCHANGED endpointState
    /\ UNCHANGED << flow, t, lastPredict, iamFaults, callNo, returned,
                    createCount, predictor, reports, lastReport, completed,
                    result, invokeVars >>

\* DeployCall that builds the model with another role than the one the
\* ensure-step returned.
DeployCall_WrongRole ==
    /\ flow = "deploy"
    /\ pc = "role_done"
    /\ role_arn' = returned[Len(returned)]
    /\ hfRole' = Arn("other")
    /\ starts' = [starts EXCEPT !.deployer = @ + 1]
    /\ fn_role_arn' = None /\ created' = FALSE /\ slept' = FALSE
    /\ p' = 1 /\ attachLog' = << >>
    /\ \/ /\ endpointState' = [endpointState EXCEPT ![GeneratedEndpoint] = "creating"]
          /\ pc' = "deploying"
          /\ UNCHANGED raised
       \/ /\ Raise("DeployError")
          /\ UNCHANGED endpointState
    /\ UNCHANGED << flow, t, lastPredict, iamRole, attached, iamFaults,
                    callNo, returned, createCount, predictor, reports,
                    lastReport, completed, result, invokeVars >>

\* Step 2 of main: role_arn receives the value the ensure-step returned and
\* deploy_huggingface_model(role_arn) builds HuggingFaceModel(role=role_arn)
\* and calls deploy(endpoint_name=None).  The provider either starts
\* creating an endpoint under a generated name or rejects the request.
\* The locals of the ensure-step are gone once it has returned.
DeployCall ==
    /\ flow = "deploy"
    /\ pc = "role_done"
    /\ role_arn' = returned[Len(returned)]
    /\ hfRole' = role_arn'
    /\ starts' = [starts EXCEPT !.deployer = @ + 1]
    /\ fn_role_arn' = None /\ created' = FALSE /\ slept' = FALSE
    /\ p' = 1 /\ attachLog' = << >>
    /\ \/ /\ endpointState' = [endpointState EXCEPT ![GeneratedEndpoint] = "creating"]
          /\ pc' = "deploying"
          /\ UNCHANGED raised
       \/ /\ Raise("DeployError")
          /\ UNCHANGED endpointState
    /\ UNCHANGED << flow, t, lastPredict, iamRole, attached, iamFaults,
                    callNo, returned, createCount, predictor, reports,
                    lastReport, completed, result, invokeVars >>

\* deploy() blocks while the endpoint is being created: it returns the
\* predictor once the endpoint is in service, or raises when creation fails.
DeployWait ==
    /\ pc = "deploying"
    /\ \/ /\ endpointState' = [endpointState EXCEPT ![GeneratedEndpoint] = "inservice"]
          /\ predictor' = GeneratedEndpoint
          /\ pc' = "test"
          /\ UNCHANGED raised
       \/ /\ endpointState' = [endpointState EXCEPT ![GeneratedEndpoint] = "failed"]
          /\ Raise("DeployError")
          /\ UNCHANGED predictor
    /\ UNCHANGED << flow, t, lastPredict, roleVars, role_arn, hfRole, starts,
                    reports, lastReport, completed, result, invokeVars >>

\* Step 3 of main: call test_endpoint(predictor).
TestStart ==
    /\ pc = "test"
    /\ starts' = [starts EXCEPT !.invoker = @ + 1]
    /\ t' = 1
    /\ pc' = "test_loop"
    /\ UNCHANGED << flow, endpointState, lastPredict, raised, roleVars,
                    role_arn, hfRole, predictor, reports, lastReport,
                    completed, result, invokeVars >>

\* What the provider can answer to a predict call on endpoint ep: a
\* response or an error while the endpoint is in service, an error otherwise.
PredictOutcomes(ep) ==
    IF endpointState[ep] = "inservice"
    THEN {[raised |-> FALSE, result |-> r] : r \in Responses}
           \cup {[raised |-> TRUE, result |-> << >>]}
    ELSE {[raised |-> TRUE, result |-> << >>]}

PredictCall(ep, text, o) ==
    [endpoint |-> ep, state |-> endpointState[ep], text |-> text.id,
     raised |-> o.raised, result |-> o.result]

\* SentimentReport taking the last entry of the result instead of the first.
SentimentReport_Last(text, res) ==
    LET prediction == res[Len(res)]
    IN  [text |-> Display(text), label |-> prediction.label,
         score |-> FormatFixed(prediction.score, ScorePlaces)]

\* The sentiment line of test_endpoint for a non-empty result.
SentimentReport(text, res) ==
    LET prediction == res[1]
    IN  [text |-> Display(text), label |-> prediction.label,
         score |-> FormatFixed(prediction.score, ScorePlaces)]

\* TestText without the try/except: an error of predict leaves
\* test_endpoint and main.
TestText_Uncaught ==
    /\ pc = "test_loop"
    /\ t <= Len(test_texts)
    /\ \E o \in PredictOutcomes(predictor) :
          /\ lastPredict' = PredictCall(predictor, test_texts[t], o)
          /\ IF o.raised
             THEN /\ Raise("PredictError")
                  /\ UNCHANGED << reports, lastReport >>
             ELSE IF Len(o.result) > 0
             THEN /\ reports' = Append(reports, [i |-> t, kind |-> "sentiment"])
                  /\ lastReport' = SentimentReport(test_texts[t], o.result)
                  /\ UNCHANGED << pc, raised >>
             ELSE /\ reports' = Append(reports, [i |-> t, kind |-> "raw"])
                  /\ UNCHANGED << lastReport, pc, raised >>
    /\ t' = t + 1
    /\ UNCHANGED << flow, endpointState, roleVars, role_arn, hfRole,
                    predictor, starts, completed, result, invokeVars >>

\* One iteration of the loop of test_endpoint: predict, then the sentiment
\* line, the raw result line, or (except Exception) the error line.
TestText ==
    /\ pc = "test_loop"
    /\ t <= Len(test_texts)
    /\ \E o \in PredictOutcomes(predictor) :
          /\ lastPredict' = PredictCall(predictor, test_texts[t], o)
          /\ IF o.raised
             THEN /\ reports' = Append(reports, [i |-> t, kind |-> "error"])
                  /\ UNCHANGED lastReport
             ELSE IF Len(o.result) > 0
             THEN /\ reports' = Append(reports, [i |-> t, kind |-> "sentiment"])
                  /\ lastReport' = SentimentReport(test_texts[t], o.result)
             ELSE /\ reports' = Append(reports, [i |-> t, kind |-> "raw"])
                  /\ UNCHANGED lastReport
    /\ t' = t + 1
    /\ UNCHANGED << flow, pc, endpointState, raised, roleVars, role_arn,
                    hfRole, predictor, starts, completed, result, invokeVars >>

\* Step 4 of main: test_endpoint returned; print DEPLOYMENT COMPLETE and
\* return predictor.
Complete ==
    /\ pc = "test_loop"
    /\ t > Len(test_texts)
    /\ completed' = TRUE
    /\ result' = predictor
    /\ pc' = "done"
    /\ UNCHANGED << flow, endpointState, t, lastPredict, raised, roleVars,
                    role_arn, hfRole, predictor, starts, reports, lastReport,
                    invokeVars >>

\* The operator deletes the endpoint when done (predictor.delete_endpoint()).
OperatorDelete ==
    /\ flow = "deploy"
    /\ pc = "done"
    /\ endpointState[GeneratedEndpoint] = "inservice"
    /\ endpointState' = [endpointState EXCEPT ![GeneratedEndpoint] = "deleted"]
    /\ UNCHANGED << flow, pc, t, lastPredict, raised, roleVars, mainVars,
                    invokeVars >>

\* ------------------------------------------------------ finbert-invoke.py
\* predictor = HuggingFacePredictor(endpoint_name=endpoint_name, ...): no
\* call to the provider is made.
InvokeSetup ==
    /\ flow = "standalone"
    /\ pc = "start"
    /\ predictor' = RecordedEndpoint
    /\ t' = 1
    /\ pc' = "predict_loop"
    /\ UNCHANGED << flow, endpointState, lastPredict, raised, roleVars,
                    role_arn, hfRole, starts, reports, lastReport, completed,
                    result, invokeVars >>

\* result[0]["phrase"] = phrase
WithPhrase(res, phrase) ==
    [res EXCEPT ![1] = [label |-> res[1].label, score |-> res[1].score,
                        phrase |-> phrase.id]]

\* One iteration of "for phrase in inputs": predict, tag the first entry,
\* append.  Nothing catches an error of predict or of result[0].
InvokePredict ==
    /\ pc = "predict_loop"
    /\ t <= Len(inputs)
    /\ \E o \in PredictOutcomes(predictor) :
          /\ lastPredict' = PredictCall(predictor, inputs[t], o)
          /\ IF o.raised
             THEN Raise("PredictError") /\ UNCHANGED outputs
             ELSE IF Len(o.result) = 0
             THEN Raise("IndexError") /\ UNCHANGED outputs
             ELSE /\ outputs' = Append(outputs, WithPhrase(o.result, inputs[t]))
                  /\ pc' = IF t = Len(inputs) THEN "print_loop" ELSE "predict_loop"
                  /\ UNCHANGED raised
    /\ t' = t + 1
    /\ UNCHANGED << flow, endpointState, roleVars, mainVars, printed >>

\* One iteration of "for pred in outputs": the Phrase/Score/Label line.
InvokePrint ==
    /\ pc = "print_loop"
    /\ Len(printed) < Len(outputs)
    /\ LET pred == outputs[Len(printed) + 1]
       IN  printed' = Append(printed,
                             [phrase |-> pred[1].phrase,
                              score |-> FormatRepr(pred[1].score),
                              label |-> pred[1].label])
    /\ pc' = IF Len(printed') = Len(outputs) THEN "done" ELSE "print_loop"
    /\ UNCHANGED << flow, endpointState, t, lastPredict, raised, roleVars,
                    mainVars, outputs >>

Next ==
    \/ MainStart
    \/ CreateRole
    \/ Sleep
    \/ GetRole
    \/ AttachPolicy
    \/ ReturnRole
    \/ DeployCall
    \/ DeployWait
    \/ TestStart
    \/ TestText
    \/ Complete
    \/ OperatorDelete
    \/ InvokeSetup
    \/ InvokePredict
    \/ InvokePrint

Spec == Init /\ [][Next]_vars

\* ----------------------------------------------------------------- claims
LastReport == reports[Len(reports)]
LastOutput == outputs[Len(outputs)]

\* C1 (as stated): in finbert-invoke.py an invocation that raises a provider
\* error does not stop the script: no exception leaves it, and it goes on
\* with the remaining inputs and the final print loop.
C1_InvokeErrorsIsolated ==
    (flow = "standalone" /\ lastPredict.raised)
        => /\ raised = None
           /\ pc \in {"predict_loop", "print_loop", "done"}

\* C2: in test_endpoint called from main every sample text is invoked once,
\* in list order; a text whose predict raises gets an error report, any
\* other text a result report; no predict error leaves the workflow, which
\* ends with DEPLOYMENT COMPLETE and the endpoint reference returned.
C2_TestErrorsIsolated ==
    flow = "deploy" =>
        /\ Len(reports) <= Len(test_texts)
        /\ \A n \in 1..Len(reports) : reports[n].i = n
        /\ pc \in {"test_loop", "done"} => Len(reports) = t - 1
        /\ Len(reports) > 0 =>
              /\ lastPredict.text = test_texts[Len(reports)].id
              /\ lastPredict.raised <=> LastReport.kind = "error"
              /\ ~lastPredict.raised <=> LastReport.kind \in {"sentiment", "raw"}
        /\ starts.invoker > 0 => raised = None /\ pc \in {"test_loop", "done"}
        /\ completed <=> pc = "done"
        /\ pc = "done" =>
              /\ Len(reports) = Len(test_texts)
              /\ result = predictor
              /\ result = GeneratedEndpoint

C2_Witness ==
    /\ flow = "deploy" /\ pc = "done" /\ completed
    /\ result = GeneratedEndpoint
    /\ reports[2].kind = "error" /\ reports[4].kind = "error"
    /\ reports[1].kind = "sentiment" /\ reports[5].kind = "sentiment"

\* C3: successive calls of the role ensure-step return the same role
\* identifier, create the role at most once in total, never fail with the
\* already-exists error, and all return when the provider raises no other
\* error.
C3_EnsureIdempotent ==
    /\ \A m, n \in 1..Len(returned) : returned[m] = returned[n]
    /\ \A n \in 1..Len(returned) : returned[n] = Arn(role_name)
    /\ createCount <= 1
    /\ raised # "EntityAlreadyExists"
    /\ iamFaults \cap {"create_role", "get_role"} = {} =>
          /\ raised = None
          /\ pc = "role_done" => Len(returned) = callNo
          /\ pc \in {"create_role", "sleep", "get_role", "attach"}
                => Len(returned) = callNo - 1

C3_Witness ==
    /\ flow = "ensure" /\ pc = "role_done" /\ callNo = 2
    /\ Len(returned) = 2 /\ returned[1] = returned[2]
    /\ createCount = 1 /\ ~created /\ raised = None

ProvisioningAborted ==
    /\ pc = "failed"
    /\ raised \in OtherIamErrors
    /\ starts.deployer = 0
    /\ hfRole = None
    /\ ~completed

\* C4 (as stated): whenever role creation, role lookup or a policy
\* attachment fails with an error other than already-exists or
\* already-attached, the deployer is never invoked and the workflow ends
\* failed with the error propagated.
C4_AllIamErrorsFatal ==
    (flow = "deploy" /\ iamFaults # {}) => ProvisioningAborted

\* C4 (amended): whenever role creation or role lookup fails with an error
\* other than already-exists, the deployer is never invoked and the
\* workflow ends failed with the error propagated; an error leaves the
\* provisioning step only in that case.
C4_CreateLookupErrorsFatal ==
    flow = "deploy" =>
        /\ iamFaults \cap {"create_role", "get_role"} # {} => ProvisioningAborted
        /\ raised \in OtherIamErrors => iamFaults \cap {"create_role", "get_role"} # {}

C4_Witness ==
    /\ flow = "deploy" /\ pc = "failed" /\ "get_role" \in iamFaults
    /\ raised \in OtherIamErrors /\ starts.deployer = 0

\* C5: each required policy is attached once, in list order, on the
\* created-role and on the existing-role path; an already-attached answer
\* and any other attachment error are printed and leave neither the loop
\* nor the function, which returns the role identifier.
C5_AttachTolerant ==
    flow = "deploy" =>
        /\ \A n \in 1..Len(attachLog) :
              /\ attachLog[n].policy = required_policies[n]
              /\ attachLog[n].outcome = "LimitExceeded"
                    => attachLog[n].line = "Policy already attached"
              /\ attachLog[n].outcome \in OtherIamErrors
                    => attachLog[n].line = "Warning: Could not attach policy"
        /\ pc = "attach" => Len(attachLog) = p - 1 /\ p <= Len(required_policies) + 1
        /\ pc = "role_done" =>
              /\ Len(attachLog) = Len(required_policies)
              /\ raised = None
              /\ Len(returned) = 1
              /\ returned[1] = fn_role_arn
              /\ returned[1] = iamRole
              /\ returned[1] # None /\ returned[1] # NoRole
        /\ Len(attachLog) > 0 => raised = None
        /\ "attach_role_policy" \in iamFaults =>
              (raised \notin OtherIamErrors /\ pc # "create_role" /\ pc # "get_role")

C5_Witness ==
    /\ flow = "deploy" /\ pc = "role_done" /\ ~created
    /\ Len(attachLog) = 3
    /\ attachLog[1].outcome = "AccessDenied"
    /\ attachLog[2].outcome = "LimitExceeded"
    /\ attachLog[3].outcome = "ok"
    /\ returned = << Arn(role_name) >>

\* C6: a failed deploy is fatal: deploy was called once, no endpoint
\* invocation and no DEPLOYMENT COMPLETE happens, the error leaves main, and
\* from the return of the ensure-step on the role and its attached policies
\* are never changed.
C6_DeployFailureFatal ==
    /\ [](raised = "DeployError" =>
            /\ pc = "failed"
            /\ starts.deployer = 1
            /\ starts.invoker = 0
            /\ lastPredict = NoPredict
            /\ reports = << >>
            /\ ~completed
            /\ result = None)
    /\ [][(flow = "deploy" /\ pc \in {"role_done", "deploying", "failed"})
             => (iamRole' = iamRole /\ attached' = attached)]_vars

C6_Witness ==
    /\ raised = "DeployError" /\ pc = "failed"
    /\ endpointState[GeneratedEndpoint] = "none"
    /\ iamRole = Arn(role_name) /\ attached = PolicySet

\* C7: main runs provisioner, deployer, invoker in this order, each at most
\* once: the deployer gets exactly the identifier the provisioner returned,
\* and the invoker invokes exactly the endpoint the deployer returned.
C7_StepOrder ==
    flow = "deploy" =>
        /\ starts.provisioner <= 1 /\ starts.deployer <= 1 /\ starts.invoker <= 1
        /\ starts.deployer <= starts.provisioner
        /\ starts.invoker <= starts.deployer
        /\ starts.deployer = 1 =>
              /\ Len(returned) = 1
              /\ role_arn = returned[1]
              /\ hfRole = returned[1]
              /\ hfRole # None
        /\ starts.deployer = 0 => hfRole = None /\ predictor = None
        /\ predictor # None => pc \in {"test", "test_loop", "done"}
        /\ starts.invoker = 1 =>
              /\ predictor = GeneratedEndpoint
              /\ pc \in {"test_loop", "done"}
        /\ starts.invoker = 0 => lastPredict = NoPredict
        /\ lastPredict # NoPredict => lastPredict.endpoint = predictor

C7_Witness ==
    /\ flow = "deploy" /\ pc = "test_loop" /\ t = 3
    /\ starts = [provisioner |-> 1, deployer |-> 1, invoker |-> 1]
    /\ hfRole = Arn(role_name)
    /\ lastPredict.endpoint = GeneratedEndpoint

\* C8 (as stated): in both flows a predict call is issued on an endpoint
\* only while that endpoint is in service.
C8_PredictOnlyInService ==
    lastPredict # NoPredict => lastPredict.state = "inservice"

FirstEntry == lastPredict.result[1]

SentimentReported ==
    /\ flow = "deploy"
    /\ Len(reports) > 0
    /\ LastReport.kind = "sentiment"

PhraseReported ==
    /\ flow = "standalone"
    /\ pc \in {"predict_loop", "print_loop", "done"}
    /\ Len(outputs) > 0

\* C9 (as stated): in both flows the reported prediction is exactly the
\* label and the score of the first entry of the response, paired with the
\* input text itself.
C9_ReportsFirstEntryExactly ==
    /\ SentimentReported =>
          /\ lastReport.label = FirstEntry.label
          /\ PrintedValue(lastReport.score) = FirstEntry.score
          /\ lastReport.text.id = lastPredict.text
          /\ lastReport.text.shown = test_texts[lastPredict.text].len
          /\ ~lastReport.text.ellipsis
    /\ PhraseReported =>
          /\ LastOutput[1].label = FirstEntry.label
          /\ LastOutput[1].score = FirstEntry.score
          /\ LastOutput[1].phrase = lastPredict.text
    /\ \A n \in 1..Len(printed) :
          /\ printed[n].label = outputs[n][1].label
          /\ PrintedValue(printed[n].score) = outputs[n][1].score
          /\ printed[n].phrase = inputs[n].id

\* C9 (amended): the reported prediction is that of the first entry of the
\* response and of no later one.  finbert-invoke.py prints its label, its
\* score and the phrase unchanged; test_endpoint prints its label, its score
\* rounded to three decimal places and the first 60 characters of the text,
\* followed by an ellipsis when the text is longer.
C9_ReportsFirstEntry ==
    /\ SentimentReported =>
          /\ lastReport.label = FirstEntry.label
          /\ lastReport.score.places = ScorePlaces
          /\ 2 * (PrintedValue(lastReport.score) - FirstEntry.score)
                <= Pow10(ScoreUnits - ScorePlaces)
          /\ 2 * (FirstEntry.score - PrintedValue(lastReport.score))
                <= Pow10(ScoreUnits - ScorePlaces)
          /\ lastReport.text.id = lastPredict.text
          /\ lastReport.text.shown <= ShownChars
          /\ lastReport.text.shown <= test_texts[lastPredict.text].len
          /\ lastReport.text.ellipsis
                <=> lastReport.text.shown < test_texts[lastPredict.text].len
          /\ lastReport.text.ellipsis => lastReport.text.shown = ShownChars
    /\ PhraseReported =>
          /\ LastOutput[1].label = FirstEntry.label
          /\ LastOutput[1].score = FirstEntry.score
          /\ LastOutput[1].phrase = lastPredict.text
    /\ \A n \in 1..Len(printed) :
          /\ printed[n].label = outputs[n][1].label
          /\ PrintedValue(printed[n].score) = outputs[n][1].score
          /\ printed[n].phrase = inputs[n].id

C9_Witness ==
    /\ SentimentReported
    /\ Len(lastPredict.result) = 2
    /\ lastPredict.result[1].label = "negative"
    /\ lastPredict.result[2].label = "positive"
    /\ lastReport.label = "negative"
    /\ lastReport.score = [digits |-> 876, places |-> 3]
    /\ lastReport.text.ellipsis

\* C10: the propagation wait happens exactly when this call created the
\* role and is over before the first attachment; on the existing-role path
\* the identifier is fetched and the attachments follow without a wait.
C10_WaitIffCreated ==
    flow = "deploy" =>
        /\ slept => created
        /\ pc = "sleep" => created /\ ~slept /\ attachLog = << >>
        /\ pc = "get_role" => ~created /\ ~slept /\ attachLog = << >>
        /\ pc \in {"attach", "role_done"} =>
              /\ slept <=> created
              /\ fn_role_arn = iamRole
              /\ fn_role_arn = Arn(role_name)
        /\ \A n \in 1..Len(attachLog) : attachLog[n].slept <=> created

C10_Witness ==
    /\ flow = "deploy" /\ pc = "role_done"
    /\ created /\ slept /\ createCount = 1
    /\ Len(attachLog) = 3 /\ attachLog[1].slept
====
